---- MODULE Spec2Model ----
(***************************************************************************)
(* Drowsiness timer and alarm state machine of the health store            *)
(* (client/src/store/useHealthStore.ts, eye-tracking revision) together    *)
(* with the detection loop of the health page that feeds it.               *)
(*                                                                         *)
(* Time is Date.now() in milliseconds.  eyesClosedDuration is the code's   *)
(* elapsedMs / 1000; it is kept here as the integer number of thousandths  *)
(* of a second (so the code's  newDuration >= 5  is  duration >= 5 * 1000).*)
(***************************************************************************)
EXTENDS Integers, FiniteSets, Sequences, Bags, TLC

\* ---------------------------------------------------------------- bounds
ClockStep == 250        \* granularity of the modelled wall clock (ms)
MaxTime == 5750         \* the clock stops advancing here
PageStep == 2500        \* granularity of the clock while the page is modelled (ms)
MaxPageTime == 8000     \* the page's clock stops advancing here
MaxPendingOn == 1       \* toggleCamera() continuations awaiting loadModels()
MaxTimers == 2          \* interval timers alive at once
MaxLoops == 2           \* detection loops alive at once (current and orphaned)
MaxCalibrated == 3      \* calibration frames followed from an empty baseline
MaxDrillReadings == 2   \* readings the drill store takes in while its transport is modelled
MaxDrillSockets == 2    \* sockets the drill store creates
MaxDrillIntervals == 2  \* interval timers the drill store creates
NetStep == 5000         \* granularity of the clock while the health transport is modelled (ms)
MaxNetTime == 10250     \* the transport's clock stops advancing here
MaxHealthReadings == 1  \* readings the health store takes in while its transport is modelled
MaxSockets == 2         \* sockets the health store creates
MaxIntervals == 2       \* interval timers the health store creates
MaxReadings == 61       \* readings each store takes in while its history is followed
ServerStep == 500       \* granularity of the clock while the server is modelled (ms)
MaxServerTime == 750    \* the server's clock stops advancing here
MaxConnections == 2     \* client connections the server accepts
MaxUpdates == 1         \* UPDATE messages followed on one connection

\* ------------------------------------------------------ program constants
Null == -1              \* JavaScript null for number | null fields
ALARM_SECONDS == 5      \* newDuration >= 5
DEBOUNCE_MS == 500      \* timeSinceOpen >= 500
MS_PER_SECOND == 1000   \* elapsedMs / 1000
TARGET_INTERVAL == 100  \* detection loop period (ms)
RECONNECT_MS == 5000    \* delay of the health store's reconnection attempt
MAX_HISTORY == 60
SENSOR_UNIT == 100      \* sensor values are kept in hundredths
EAR_UNIT == 10000       \* eye aspect ratios are kept in ten-thousandths
EAR_HISTORY_SIZE == 3
CALIBRATION_FRAMES == 20
EYE_POINTS == 6         \* landmarks per eye

VARIABLES
    now,                  \* Date.now()
    cameraActive,
    eyesClosedDuration,   \* thousandths of a second
    alertBeeping,
    modelsLoaded,
    lastEyeState,         \* "null" | "open" | "closed"
    lastEyeStateTime,
    eyesClosedStartTime,  \* Null or a timestamp
    faceDetection,        \* healthData.faceDetection
    beepInterval,         \* handle stashed on the store, 0 = null/undefined
    timers,               \* ids of the setInterval timers that are running
    pendingOn,            \* toggleCamera() calls whose loadModels().then is pending
    loops,                \* bag of the page's detection loop closures that
                          \* still have a frame requested or a detection in
                          \* flight: [pc, cleaned, ts]
    earHistory,           \* earHistoryRef.current
    baselineEAR,          \* baselineEARRef.current, Null or a ratio
    calibrationFrames,    \* calibrationFramesRef.current
    lastFrame,            \* history: what detectEyes computed for the last frame
    mockControlState,     \* drill store: module-level control state
    drillData,            \* drill store: data
    drillHistory,         \* drill store: history
    drillIsConnected,     \* drill store: isConnected
    drillMockInterval,    \* drill store: mockInterval handle, 0 when unset
    drillIntervals,       \* drill store: interval timers created, TRUE while live
    drillWs,              \* drill store: ws handle, 0 when unset
    drillSockets,         \* drill store: readyState of the sockets created
    drillSent,            \* drill store: the last message sent to the server
    drillReadings,        \* drill store: readings taken in so far
    healthData,           \* health store: healthData without its faceDetection
    history,              \* health store: history
    isConnected,          \* health store: isConnected
    mockInterval,         \* health store: mockInterval handle, 0 when unset
    intervals,            \* health store: interval timers created, TRUE while live
    socket,               \* health store: socket handle, 0 when unset
    sockets,              \* health store: readyState of the sockets created
    retryTimers,          \* health store: pending setTimeout(..., 5000) of onclose
    healthReadings,       \* health store: readings taken in so far
    systemState,          \* server: systemState
    temperatureBaseline,  \* server: SENSORS.temperature.baseline, in TEMP_UNIT
    serverConnections,    \* server: the connections accepted, with their
                          \* readyState, interval handle and UPDATEs sent
    serverIntervals,      \* server: interval timers created, with their socket
    serverSent,           \* server: the last UPDATE transmitted and its socket
    lastCall,             \* history: the operation that produced this state
    safeRunStart          \* history: arrival of the first observation of the
                          \* current run of consecutive SAFE observations

storeVars == <<cameraActive, eyesClosedDuration, alertBeeping, modelsLoaded,
               lastEyeState, lastEyeStateTime, eyesClosedStartTime,
               faceDetection, beepInterval, timers, pendingOn>>
eyeVars == <<earHistory, baselineEAR, calibrationFrames, lastFrame>>
drillVars == <<mockControlState, drillData, drillHistory, drillIsConnected,
               drillMockInterval, drillIntervals, drillWs, drillSockets,
               drillSent, drillReadings>>
healthVars == <<healthData, history, isConnected, mockInterval, intervals,
                socket, sockets, retryTimers, healthReadings>>
serverVars == <<systemState, temperatureBaseline, serverConnections, serverIntervals,
                serverSent>>
dataVars == <<drillVars, healthVars, serverVars>>
histVars == <<lastCall, safeRunStart>>
vars == <<now, storeVars, loops, eyeVars, dataVars, histVars>>

\* history record: the call, its arguments, and alertBeeping as the call found it
Call(name, eo, ev, fd) ==
    [name |-> name, eyesOpen |-> eo, eyesVisible |-> ev, faceDetected |-> fd,
     alarmBefore |-> alertBeeping]
Plain(name) == Call(name, FALSE, FALSE, FALSE)
CommandCall(command, value) ==
    [name |-> "sendCommand", command |-> command, value |-> value,
     alarmBefore |-> alertBeeping]

\* ------------------------------------------------------------ the store

\* startBeep(): start the 500 ms tone interval and stash its handle
startBeep(t, h) ==
    [timers |-> t \cup {CHOOSE id \in 1..(MaxTimers + 1) : id \notin t},
     beepInterval |-> CHOOSE id \in 1..(MaxTimers + 1) : id \notin t]

\* if (beepInterval) { clearInterval(beepInterval); beepInterval = null }
clearBeep(t, h) ==
    IF h # 0 THEN [timers |-> t \ {h}, beepInterval |-> 0]
    ELSE [timers |-> t, beepInterval |-> h]

\* current.lastEyeStateTime || Date.now()
OrNow(t) == IF t = 0 THEN now ELSE t

\* the initial store state
StoreInit ==
    /\ cameraActive = FALSE
    /\ eyesClosedDuration = 0
    /\ alertBeeping = FALSE
    /\ modelsLoaded = FALSE
    /\ lastEyeState = "null"
    /\ lastEyeStateTime = 0
    /\ eyesClosedStartTime = Null
    /\ faceDetection = [faceDetected |-> FALSE, eyesOpen |-> TRUE, cameraActive |-> FALSE]
    /\ beepInterval = 0
    /\ timers = {}
    /\ pendingOn = 0

updateSafeAutoStop ==
    /\ IF lastEyeState # "open"
       THEN /\ lastEyeState' = "open"
            /\ lastEyeStateTime' = now
            /\ UNCHANGED <<eyesClosedDuration, eyesClosedStartTime, alertBeeping>>
       ELSE /\ UNCHANGED <<lastEyeState, lastEyeStateTime>>
            /\ IF now - OrNow(lastEyeStateTime) >= DEBOUNCE_MS
               THEN /\ eyesClosedDuration' = 0
                    /\ eyesClosedStartTime' = Null
                    /\ alertBeeping' = FALSE
               ELSE UNCHANGED <<eyesClosedDuration, eyesClosedStartTime, alertBeeping>>
    /\ faceDetection' = [faceDetected |-> TRUE, eyesOpen |-> TRUE,
                         cameraActive |-> cameraActive]
    /\ UNCHANGED <<beepInterval, timers>>

updateSafeNoDebounce ==
    /\ lastEyeState' = "open"
    /\ lastEyeStateTime' = IF lastEyeState # "open" THEN now ELSE lastEyeStateTime
    /\ eyesClosedDuration' = 0
    /\ eyesClosedStartTime' = Null
    /\ faceDetection' = [faceDetected |-> TRUE, eyesOpen |-> TRUE,
                         cameraActive |-> cameraActive]
    /\ UNCHANGED <<alertBeeping, beepInterval, timers>>

updateSafeNoRestamp ==
    /\ IF lastEyeState # "open"
       THEN /\ lastEyeState' = "open"
            /\ UNCHANGED <<lastEyeStateTime, eyesClosedDuration, eyesClosedStartTime>>
       ELSE /\ UNCHANGED <<lastEyeState, lastEyeStateTime>>
            /\ IF now - OrNow(lastEyeStateTime) >= DEBOUNCE_MS
               THEN /\ eyesClosedDuration' = 0
                    /\ eyesClosedStartTime' = Null
               ELSE UNCHANGED <<eyesClosedDuration, eyesClosedStartTime>>
    /\ faceDetection' = [faceDetected |-> TRUE, eyesOpen |-> TRUE,
                         cameraActive |-> cameraActive]
    /\ UNCHANGED <<alertBeeping, beepInterval, timers>>

\* SCENARIO 1 of updateEyeState: eyes visible and open
updateSafe ==
    /\ IF lastEyeState # "open"
       THEN /\ lastEyeState' = "open"
            /\ lastEyeStateTime' = now
            /\ UNCHANGED <<eyesClosedDuration, eyesClosedStartTime>>
       ELSE /\ UNCHANGED <<lastEyeState, lastEyeStateTime>>
            /\ IF now - OrNow(lastEyeStateTime) >= DEBOUNCE_MS
               THEN /\ eyesClosedDuration' = 0
                    /\ eyesClosedStartTime' = Null
               ELSE UNCHANGED <<eyesClosedDuration, eyesClosedStartTime>>
    /\ faceDetection' = [faceDetected |-> TRUE, eyesOpen |-> TRUE,
                         cameraActive |-> cameraActive]
    /\ UNCHANGED <<alertBeeping, beepInterval, timers>>

NewDurationPerFrame(startTime) == eyesClosedDuration + TARGET_INTERVAL
\* elapsed time written by the two danger scenarios: now - startTime
NewDuration(startTime) == now - startTime

AlarmDueInMs(newDuration) == newDuration >= ALARM_SECONDS
AlarmDueStrict(newDuration) == newDuration > ALARM_SECONDS * MS_PER_SECOND
\* newDuration >= 5, with newDuration in thousandths of a second
AlarmDue(newDuration) == newDuration >= ALARM_SECONDS * MS_PER_SECOND

updateUnsafeUnguarded(fd) ==
    LET startTime == IF eyesClosedStartTime = Null THEN now ELSE eyesClosedStartTime
        newDuration == NewDuration(startTime)
        beep == startBeep(timers, beepInterval)
    IN  /\ lastEyeState' = "closed"
        /\ lastEyeStateTime' = now
        /\ eyesClosedStartTime' = startTime
        /\ eyesClosedDuration' = newDuration
        /\ faceDetection' = [faceDetected |-> fd, eyesOpen |-> FALSE,
                             cameraActive |-> cameraActive]
        /\ IF AlarmDue(newDuration)
           THEN /\ alertBeeping' = TRUE
                /\ timers' = beep.timers
                /\ beepInterval' = beep.beepInterval
           ELSE UNCHANGED <<alertBeeping, timers, beepInterval>>

updateUnsafeRestart(fd) ==
    LET startTime == IF eyesClosedStartTime = Null \/ faceDetection.faceDetected # fd
                     THEN now ELSE eyesClosedStartTime
        newDuration == NewDuration(startTime)
        trigger == AlarmDue(newDuration) /\ ~alertBeeping
        beep == startBeep(timers, beepInterval)
    IN  /\ lastEyeState' = "closed"
        /\ lastEyeStateTime' = now
        /\ eyesClosedStartTime' = startTime
        /\ eyesClosedDuration' = newDuration
        /\ faceDetection' = [faceDetected |-> fd, eyesOpen |-> FALSE,
                             cameraActive |-> cameraActive]
        /\ IF trigger
           THEN /\ alertBeeping' = TRUE
                /\ timers' = beep.timers
                /\ beepInterval' = beep.beepInterval
           ELSE UNCHANGED <<alertBeeping, timers, beepInterval>>

\* SCENARIO 2 (visible but closed) and SCENARIO 3 (not visible): the two
\* branches differ only in the faceDetected flag they record
updateUnsafe(fd) ==
    LET startTime == IF eyesClosedStartTime = Null THEN now ELSE eyesClosedStartTime
        newDuration == NewDuration(startTime)
        trigger == AlarmDue(newDuration) /\ ~alertBeeping
        beep == startBeep(timers, beepInterval)
    IN  /\ lastEyeState' = "closed"
        /\ lastEyeStateTime' = now
        /\ eyesClosedStartTime' = startTime
        /\ eyesClosedDuration' = newDuration
        /\ faceDetection' = [faceDetected |-> fd, eyesOpen |-> FALSE,
                             cameraActive |-> cameraActive]
        /\ IF trigger
           THEN /\ alertBeeping' = TRUE
                /\ timers' = beep.timers
                /\ beepInterval' = beep.beepInterval
           ELSE UNCHANGED <<alertBeeping, timers, beepInterval>>

\* updateEyeState(eyesOpen, eyesVisible, faceDetected)
updateEyeState(eo, ev, fd) ==
    /\ IF ev /\ eo THEN updateSafe
       ELSE IF ev /\ ~eo THEN updateUnsafe(TRUE)
       ELSE updateUnsafe(fd)
    /\ UNCHANGED <<cameraActive, modelsLoaded, pendingOn>>

stopBeepResetAll ==
    LET c == clearBeep(timers, beepInterval)
    IN  /\ timers' = c.timers
        /\ beepInterval' = c.beepInterval
        /\ alertBeeping' = FALSE
        /\ eyesClosedDuration' = 0
        /\ eyesClosedStartTime' = Null
        /\ UNCHANGED <<cameraActive, modelsLoaded, lastEyeState,
                       lastEyeStateTime, faceDetection, pendingOn>>

\* stopBeep()
stopBeep ==
    LET c == clearBeep(timers, beepInterval)
    IN  /\ timers' = c.timers
        /\ beepInterval' = c.beepInterval
        /\ alertBeeping' = FALSE
        /\ UNCHANGED <<cameraActive, eyesClosedDuration, modelsLoaded, lastEyeState,
                       lastEyeStateTime, eyesClosedStartTime, faceDetection, pendingOn>>

\* toggleCamera() while the camera is off: only schedules the continuation
toggleCameraOn ==
    /\ ~cameraActive
    /\ pendingOn < MaxPendingOn
    /\ pendingOn' = pendingOn + 1
    /\ UNCHANGED <<cameraActive, eyesClosedDuration, alertBeeping, modelsLoaded,
                   lastEyeState, lastEyeStateTime, eyesClosedStartTime,
                   faceDetection, beepInterval, timers>>

\* loadModels().then(...) of a toggleCamera() call: loadModels() resolves
\* whether or not a model source answered
cameraOnContinuation(loaded) ==
    /\ pendingOn > 0
    /\ pendingOn' = pendingOn - 1
    /\ modelsLoaded' = (modelsLoaded \/ loaded)
    /\ cameraActive' = TRUE
    /\ eyesClosedDuration' = 0
    /\ eyesClosedStartTime' = Null
    /\ UNCHANGED <<alertBeeping, lastEyeState, lastEyeStateTime, faceDetection,
                   beepInterval, timers>>

toggleCameraOffKeepBeep ==
    /\ cameraActive
    /\ cameraActive' = FALSE
    /\ eyesClosedDuration' = 0
    /\ eyesClosedStartTime' = Null
    /\ UNCHANGED <<alertBeeping, timers, beepInterval, modelsLoaded, lastEyeState,
                   lastEyeStateTime, faceDetection, pendingOn>>

\* toggleCamera() while the camera is on
toggleCameraOff ==
    LET c == clearBeep(timers, beepInterval)
    IN  /\ cameraActive
        /\ cameraActive' = FALSE
        /\ eyesClosedDuration' = 0
        /\ alertBeeping' = FALSE
        /\ eyesClosedStartTime' = Null
        /\ timers' = c.timers
        /\ beepInterval' = c.beepInterval
        /\ UNCHANGED <<modelsLoaded, lastEyeState, lastEyeStateTime,
                       faceDetection, pendingOn>>

\* loadModels() called from connect() or from the page, succeeding
loadModels ==
    /\ ~modelsLoaded
    /\ modelsLoaded' = TRUE
    /\ UNCHANGED <<cameraActive, eyesClosedDuration, alertBeeping, lastEyeState,
                   lastEyeStateTime, eyesClosedStartTime, faceDetection,
                   beepInterval, timers, pendingOn>>

\* ---------------------------------------------- the store under its callers

\* ---------------------------------------------------------------- helpers

Abs(x) == IF x < 0 THEN -x ELSE x
Min(a, b) == IF a < b THEN a ELSE b
Max(a, b) == IF a > b THEN a ELSE b

RECURSIVE Sum(_)
Sum(seq) == IF seq = <<>> THEN 0 ELSE Head(seq) + Sum(Tail(seq))

\* ------------------------------------------------------- the drill store

SensorNames ==
    {"rpm", "vibration", "sound", "temperature", "humidity", "pressure", "current"}

\* the sensor ranges the server declares, in SENSOR_UNIT
SENSORS ==
    [rpm         |-> [min |-> 0,                max |-> 3000 * SENSOR_UNIT],
     vibration   |-> [min |-> 0,                max |-> 100 * SENSOR_UNIT],
     sound       |-> [min |-> 30 * SENSOR_UNIT, max |-> 120 * SENSOR_UNIT],
     temperature |-> [min |-> 20 * SENSOR_UNIT, max |-> 80 * SENSOR_UNIT],
     humidity    |-> [min |-> 30 * SENSOR_UNIT, max |-> 90 * SENSOR_UNIT],
     pressure    |-> [min |-> 0,                max |-> 500 * SENSOR_UNIT],
     current     |-> [min |-> 0,                max |-> 15 * SENSOR_UNIT]]

\* Math.random() lies in [0, 1); a draw is its value in hundredths
RANDOM_UNIT == 100
QuietDraw == RANDOM_UNIT \div 2
DrawValues == {0, RANDOM_UNIT - 1}

\* the draws of one reading, one per sensor
Draws == {[n \in SensorNames |-> p] : p \in DrawValues}

QuietDrillDraw == [n \in SensorNames |-> QuietDraw]

\* Math.random() * span, in SENSOR_UNIT
Random(draw, span) == (draw * span * SENSOR_UNIT) \div RANDOM_UNIT

\* [...history, newData].slice(-MAX_HISTORY)
sliceLast(seq, n) ==
    IF Len(seq) <= n THEN seq ELSE SubSeq(seq, Len(seq) - n + 1, Len(seq))

appendKeepFirst(readings, newData) ==
    SubSeq(Append(readings, newData), 1, Min(Len(readings) + 1, MAX_HISTORY))
appendReading(readings, newData) == sliceLast(Append(readings, newData), MAX_HISTORY)

DRILL_TEMPERATURE_ALERT == 60 * SENSOR_UNIT
DRILL_VIBRATION_ALERT == 50 * SENSOR_UNIT

drillSensors(control, draw) ==
    LET running == control.isRunning
        baseRpm == IF running THEN control.targetRpm * SENSOR_UNIT ELSE 0
        basePressure == control.feedLevel * 30 * SENSOR_UNIT
    IN  [rpm |-> IF running
                 THEN baseRpm + Random(draw.rpm, 100) - 50 * SENSOR_UNIT
                 ELSE 0,
         vibration |-> IF running
                       THEN 30 * SENSOR_UNIT + Random(draw.vibration, 20) - 10 * SENSOR_UNIT
                       ELSE 0,
         sound |-> IF running
                   THEN 70 * SENSOR_UNIT + Random(draw.sound, 15) - 7 * SENSOR_UNIT
                   ELSE 20 * SENSOR_UNIT,
         temperature |-> IF running
                         THEN 45 * SENSOR_UNIT + Random(draw.temperature, 10) - 5 * SENSOR_UNIT
                         ELSE 25 * SENSOR_UNIT,
         humidity |-> 55 * SENSOR_UNIT + Random(draw.humidity, 10) - 5 * SENSOR_UNIT,
         pressure |-> IF running
                      THEN basePressure + Random(draw.pressure, 20) - 10 * SENSOR_UNIT
                      ELSE 0,
         current |-> IF running
                     THEN 6 * SENSOR_UNIT + Random(draw.current, 2) - 1 * SENSOR_UNIT
                     ELSE 0]

\* the types of the alerts of a reading, in the order they are pushed
drillAlerts(sensors) ==
    (IF sensors.temperature > DRILL_TEMPERATURE_ALERT THEN <<"warning">> ELSE <<>>)
        \o (IF sensors.vibration > DRILL_VIBRATION_ALERT THEN <<"critical">> ELSE <<>>)

HasCritical(alerts) == \E i \in 1..Len(alerts) : alerts[i] = "critical"

drillStatusByAlerts(isRunning, alerts) ==
    IF HasCritical(alerts) THEN "Critical"
    ELSE IF Len(alerts) > 0 THEN "Alert" ELSE "Running"
drillStatus(isRunning, alerts) ==
    IF ~isRunning THEN "Stopped"
    ELSE IF HasCritical(alerts) THEN "Critical"
    ELSE IF Len(alerts) > 0 THEN "Alert" ELSE "Running"

\* generateMockDrillData(); serial stands for the reading's timestamp
generateMockDrillData(control, draw, serial) ==
    LET sensors == drillSensors(control, draw)
        alerts == drillAlerts(sensors)
    IN  [serial |-> serial,
         status |-> drillStatus(control.isRunning, alerts),
         sensors |-> sensors, alerts |-> alerts]

\* a reading the server sends in an UPDATE message
ServerDrillReading(serial) ==
    [serial |-> serial, status |-> "Stopped",
     sensors |-> [n \in SensorNames |-> SENSORS[n].min],
     alerts |-> <<>>]

\* the drill store's data at construction
DrillDataInit(draws) ==
    /\ mockControlState = [isRunning |-> TRUE, targetRpm |-> 1500, feedLevel |-> 5]
    /\ \E draw \in draws :
           LET initialData == generateMockDrillData(mockControlState, draw, 0)
           IN  /\ drillData = initialData
               /\ drillHistory = <<initialData>>
    /\ drillSent = <<>>
    /\ drillReadings = 0

\* the drill store's transport at construction
DrillDown ==
    /\ drillIsConnected = FALSE
    /\ drillMockInterval = 0
    /\ drillIntervals = <<>>
    /\ drillWs = 0
    /\ drillSockets = <<>>

\* the drill store's transport after connect() and the socket's open event
DrillUp ==
    /\ drillIsConnected = TRUE
    /\ drillMockInterval = 1
    /\ drillIntervals = <<TRUE>>
    /\ drillWs = 1
    /\ drillSockets = <<"open">>

DrillInit(draws) == DrillDataInit(draws) /\ DrillDown

drillTakeInDataOnly(newData) ==
    /\ drillData' = newData
    /\ drillHistory' = drillHistory
    /\ drillReadings' = drillReadings + 1

\* set({ data: newData, history: [...state.history, newData].slice(-MAX_HISTORY) })
drillTakeIn(newData) ==
    /\ drillData' = newData
    /\ drillHistory' = appendReading(drillHistory, newData)
    /\ drillReadings' = drillReadings + 1

\* callback of the 1000 ms interval
drillTick(draw) ==
    /\ drillTakeIn(generateMockDrillData(mockControlState, draw, drillReadings + 1))
    /\ UNCHANGED <<mockControlState, drillIsConnected, drillMockInterval,
                   drillIntervals, drillWs, drillSockets, drillSent>>

\* connect() of the drill store
drillConnect ==
    IF drillIsConnected
    THEN UNCHANGED drillVars
    ELSE /\ IF drillMockInterval = 0
            THEN /\ drillIsConnected' = TRUE
                 /\ drillIntervals' = Append(drillIntervals, TRUE)
                 /\ drillMockInterval' = Len(drillIntervals) + 1
            ELSE UNCHANGED <<drillIsConnected, drillIntervals, drillMockInterval>>
         /\ drillSockets' = Append(drillSockets, "connecting")
         /\ drillWs' = Len(drillSockets) + 1
         /\ UNCHANGED <<mockControlState, drillData, drillHistory, drillSent,
                        drillReadings>>

\* ws.close()
closeSocket(socks, ws) ==
    IF ws # 0 /\ socks[ws] \in {"connecting", "open"}
    THEN [socks EXCEPT ![ws] = "closing"]
    ELSE socks

\* clearInterval(handle)
clearIntervalOf(ivals, handle) ==
    IF handle # 0 THEN [ivals EXCEPT ![handle] = FALSE] ELSE ivals

\* disconnect() of the drill store
drillDisconnect ==
    /\ drillSockets' = closeSocket(drillSockets, drillWs)
    /\ drillIntervals' = clearIntervalOf(drillIntervals, drillMockInterval)
    /\ drillMockInterval' = 0
    /\ drillIsConnected' = FALSE
    /\ UNCHANGED <<mockControlState, drillData, drillHistory, drillWs, drillSent,
                   drillReadings>>

\* ws.onopen of socket i
drillOnOpen(i) ==
    /\ drillSockets' = [drillSockets EXCEPT ![i] = "open"]
    /\ drillIsConnected' = TRUE
    /\ UNCHANGED <<mockControlState, drillData, drillHistory, drillMockInterval,
                   drillIntervals, drillWs, drillSent, drillReadings>>

\* ws.onerror of socket i: the connection is failing, the handler logs
drillOnError(i) ==
    /\ drillSockets' = [drillSockets EXCEPT ![i] = "closing"]
    /\ UNCHANGED <<mockControlState, drillData, drillHistory, drillIsConnected,
                   drillMockInterval, drillIntervals, drillWs, drillSent,
                   drillReadings>>

\* ws.onclose of socket i
drillOnClose(i) ==
    /\ drillSockets' = [drillSockets EXCEPT ![i] = "closed"]
    /\ drillIsConnected' = IF drillMockInterval = 0 THEN FALSE ELSE drillIsConnected
    /\ UNCHANGED <<mockControlState, drillData, drillHistory, drillMockInterval,
                   drillIntervals, drillWs, drillSent, drillReadings>>

MessageKinds == {"update", "other", "unparsable"}

\* ws.onmessage of a socket
drillOnMessage(kind, newData) ==
    IF kind = "update"
    THEN /\ drillTakeIn(newData)
         /\ UNCHANGED <<mockControlState, drillIsConnected, drillMockInterval,
                        drillIntervals, drillWs, drillSockets, drillSent>>
    ELSE UNCHANGED drillVars

\* an optional argument: <<>> when left out, <<v>> when given
Undefined == <<>>
Defined(v) == <<v>>
DrillCommands == {"START", "STOP", "RESET", "SET_RPM", "SET_FEED", "PAUSE"}

\* the switch of sendCommand
applyCommand(control, command, value) ==
    CASE command = "START" -> [control EXCEPT !.isRunning = TRUE]
      [] command = "STOP" -> [control EXCEPT !.isRunning = FALSE]
      [] command = "RESET" -> [isRunning |-> TRUE, targetRpm |-> 1500, feedLevel |-> 5]
      [] command = "SET_RPM" ->
             IF value # Undefined THEN [control EXCEPT !.targetRpm = value[1]] ELSE control
      [] command = "SET_FEED" ->
             IF value # Undefined THEN [control EXCEPT !.feedLevel = value[1]] ELSE control
      [] OTHER -> control

sendCommandStale(command, value, draw) ==
    LET control == applyCommand(mockControlState, command, value)
    IN  /\ mockControlState' = control
        /\ drillTakeIn(generateMockDrillData(mockControlState, draw, drillReadings + 1))
        /\ drillSent' = IF drillWs # 0 /\ drillSockets[drillWs] = "open"
                        THEN <<"CONTROL", command, value>>
                        ELSE drillSent
        /\ UNCHANGED <<drillIsConnected, drillMockInterval, drillIntervals,
                       drillWs, drillSockets>>

\* sendCommand(command, value)
sendCommand(command, value, draw) ==
    LET control == applyCommand(mockControlState, command, value)
    IN  /\ mockControlState' = control
        /\ drillTakeIn(generateMockDrillData(control, draw, drillReadings + 1))
        /\ drillSent' = IF drillWs # 0 /\ drillSockets[drillWs] = "open"
                        THEN <<"CONTROL", command, value>>
                        ELSE drillSent
        /\ UNCHANGED <<drillIsConnected, drillMockInterval, drillIntervals,
                       drillWs, drillSockets>>

\* ------------------------------------------------------ the health store

VitalNames ==
    {"pulseRate", "heartRate", "spO2", "bloodPressure", "temperature", "respirationRate"}

HealthDraws == {[n \in VitalNames |-> p] : p \in DrawValues}
QuietHealthDraw == [n \in VitalNames |-> QuietDraw]

\* Math.random() * (tenths / 10), in SENSOR_UNIT
RandomTenths(draw, tenths) == (draw * tenths * SENSOR_UNIT) \div (10 * RANDOM_UNIT)

HEART_RATE_ALERT == 60 * SENSOR_UNIT
TEMPERATURE_ALERT == 3720       \* 37.2 in SENSOR_UNIT

baseVitals(draw) ==
    [pulseRate |-> 72 * SENSOR_UNIT + Random(draw.pulseRate, 10) - 5 * SENSOR_UNIT,
     heartRate |-> 68 * SENSOR_UNIT + Random(draw.heartRate, 8) - 4 * SENSOR_UNIT,
     spO2 |-> 98 * SENSOR_UNIT + Random(draw.spO2, 2) - 1 * SENSOR_UNIT,
     bloodPressure |-> 120 * SENSOR_UNIT + Random(draw.bloodPressure, 20) - 10 * SENSOR_UNIT,
     temperature |-> 3680 + RandomTenths(draw.temperature, 4) - 20,
     respirationRate |-> 16 * SENSOR_UNIT + Random(draw.respirationRate, 4) - 2 * SENSOR_UNIT]

healthAlerts(vitals) ==
    (IF vitals.heartRate < HEART_RATE_ALERT THEN <<"warning">> ELSE <<>>)
        \o (IF vitals.temperature > TEMPERATURE_ALERT THEN <<"critical">> ELSE <<>>)

healthStatus(alerts) ==
    IF HasCritical(alerts) THEN "Critical"
    ELSE IF Len(alerts) > 0 THEN "Warning" ELSE "Normal"

\* generateMockHealthData(); serial stands for the reading's timestamp
generateMockHealthData(draw, serial) ==
    LET vitals == baseVitals(draw)
        alerts == healthAlerts(vitals)
    IN  [serial |-> serial, status |-> healthStatus(alerts),
         vitals |-> vitals, alerts |-> alerts]

\* a reading the server sends in a HEALTH_UPDATE message
ServerHealthReading(serial) ==
    [serial |-> serial, status |-> "Warning",
     vitals |-> [baseVitals([n \in VitalNames |-> QuietDraw])
                     EXCEPT !.heartRate = HEART_RATE_ALERT - SENSOR_UNIT],
     alerts |-> <<"warning">>]

ServerFaceDetection == [faceDetected |-> FALSE, eyesOpen |-> TRUE, cameraActive |-> FALSE]

\* the health store's data at construction
HealthDataInit(draws) ==
    /\ \E draw \in draws :
           LET initialData == generateMockHealthData(draw, 0)
           IN  /\ healthData = initialData
               /\ history = <<initialData>>
    /\ healthReadings = 0

\* the health store's transport at construction
HealthDown ==
    /\ isConnected = FALSE
    /\ mockInterval = 0
    /\ intervals = <<>>
    /\ socket = 0
    /\ sockets = <<>>
    /\ retryTimers = {}

\* the health store's transport after connect() and the socket's open event
HealthUp ==
    /\ isConnected = TRUE
    /\ mockInterval = 1
    /\ intervals = <<TRUE>>
    /\ socket = 1
    /\ sockets = <<"open">>
    /\ retryTimers = {}

HealthInit(draws) == HealthDataInit(draws) /\ HealthDown

\* the store's fields other than healthData.faceDetection
storeRest == <<cameraActive, eyesClosedDuration, alertBeeping, modelsLoaded,
               lastEyeState, lastEyeStateTime, eyesClosedStartTime,
               beepInterval, timers, pendingOn>>

\* set({ healthData: newData, history: [...].slice(-MAX_HISTORY) })
healthTakeIn(newData) ==
    /\ healthData' = newData
    /\ history' = appendReading(history, newData)
    /\ healthReadings' = healthReadings + 1

\* callback of the 2000 ms interval; newData keeps the current faceDetection
healthTick(draw) ==
    /\ healthTakeIn(generateMockHealthData(draw, healthReadings + 1))
    /\ UNCHANGED <<isConnected, mockInterval, intervals, socket, sockets, retryTimers>>
    /\ UNCHANGED storeVars

\* tryConnect(): new WebSocket, handlers attached, handle stored
tryConnect ==
    /\ sockets' = Append(sockets, "connecting")
    /\ socket' = Len(sockets) + 1

\* connect() of the health store; its loadModels() call completes on its own
connect ==
    /\ IF isConnected
       THEN UNCHANGED healthVars
       ELSE /\ IF mockInterval = 0
               THEN /\ intervals' = Append(intervals, TRUE)
                    /\ mockInterval' = Len(intervals) + 1
               ELSE UNCHANGED <<intervals, mockInterval>>
            /\ tryConnect
            /\ UNCHANGED <<healthData, history, isConnected, retryTimers, healthReadings>>
    /\ UNCHANGED storeVars

disconnectStopsBeep ==
    /\ sockets' = closeSocket(sockets, socket)
    /\ intervals' = clearIntervalOf(intervals, mockInterval)
    /\ mockInterval' = 0
    /\ isConnected' = FALSE
    /\ UNCHANGED <<healthData, history, socket, retryTimers, healthReadings>>
    /\ stopBeep
\* disconnect() of the health store
disconnect ==
    /\ sockets' = closeSocket(sockets, socket)
    /\ intervals' = clearIntervalOf(intervals, mockInterval)
    /\ mockInterval' = 0
    /\ isConnected' = FALSE
    /\ UNCHANGED <<healthData, history, socket, retryTimers, healthReadings>>
    /\ UNCHANGED storeVars

\* ws.onopen of socket i
onopen(i) ==
    /\ sockets' = [sockets EXCEPT ![i] = "open"]
    /\ isConnected' = TRUE
    /\ UNCHANGED <<healthData, history, mockInterval, intervals, socket,
                   retryTimers, healthReadings>>
    /\ UNCHANGED storeVars

\* ws.onerror of socket i: the connection is failing, the handler logs
onerror(i) ==
    /\ sockets' = [sockets EXCEPT ![i] = "closing"]
    /\ UNCHANGED <<healthData, history, isConnected, mockInterval, intervals,
                   socket, retryTimers, healthReadings>>
    /\ UNCHANGED storeVars

RetryTimer(i, closedAt, delay) ==
    [socket |-> i, closedAt |-> closedAt, due |-> closedAt + delay]

oncloseNoDelay(i) ==
    /\ sockets' = [sockets EXCEPT ![i] = "closed"]
    /\ isConnected' = FALSE
    /\ retryTimers' = retryTimers \cup {RetryTimer(i, now, 0)}
    /\ UNCHANGED <<healthData, history, mockInterval, intervals, socket, healthReadings>>
    /\ UNCHANGED storeVars
\* ws.onclose of socket i
onclose(i) ==
    /\ sockets' = [sockets EXCEPT ![i] = "closed"]
    /\ isConnected' = FALSE
    /\ retryTimers' = retryTimers \cup {RetryTimer(i, now, RECONNECT_MS)}
    /\ UNCHANGED <<healthData, history, mockInterval, intervals, socket, healthReadings>>
    /\ UNCHANGED storeVars

\* the callback of onclose's setTimeout
retry(t) ==
    /\ retryTimers' = retryTimers \ {t}
    /\ IF ~isConnected
       THEN tryConnect
       ELSE UNCHANGED <<socket, sockets>>
    /\ UNCHANGED <<healthData, history, isConnected, mockInterval, intervals,
                   healthReadings>>
    /\ UNCHANGED storeVars

\* ws.onmessage of a socket; the reading replaces healthData as a whole
onmessage(kind, newData) ==
    IF kind = "update"
    THEN /\ healthTakeIn(newData)
         /\ faceDetection' = ServerFaceDetection
         /\ UNCHANGED <<isConnected, mockInterval, intervals, socket, sockets,
                        retryTimers>>
         /\ UNCHANGED storeRest
    ELSE UNCHANGED <<healthVars, storeVars>>

\* ------------------------------------------------------- the mock server

TEMP_UNIT == 10 * SENSOR_UNIT       \* the server's temperatures, in thousandths

\* systemState and SENSORS.temperature.baseline when the module is loaded
ServerInit ==
    /\ systemState = [isRunning |-> FALSE, rpmTarget |-> 1000, feedRate |-> 5,
                      totalRuntime |-> 0, sessionStartTime |-> Null,
                      alerts |-> <<>>, lastUpdate |-> now]
    /\ temperatureBaseline = 22 * TEMP_UNIT
    /\ serverConnections = <<>>
    /\ serverIntervals = <<>>
    /\ serverSent = <<>>

\* (Math.random() - 0.5) * noise, the noise given in tenths
Noise(draw, tenths, unit) ==
    ((draw - RANDOM_UNIT \div 2) * tenths * unit) \div (10 * RANDOM_UNIT)

\* generateSensorData(): the reading, and the state it leaves behind.  Of the
\* sensors the reading carries rpm, pressure and temperature.
generateSensorData(state, baseline, draw) ==
    LET dt == now - state.lastUpdate
        currentRpm == IF state.isRunning THEN state.rpmTarget ELSE 0
        pressureBase == IF state.isRunning THEN state.feedRate * 30 ELSE 0
        newBaseline ==
            IF state.isRunning
            THEN Min(baseline + (5 * dt * TEMP_UNIT) \div (100 * MS_PER_SECOND),
                     75 * TEMP_UNIT)
            ELSE Max(baseline - (dt * TEMP_UNIT) \div (10 * MS_PER_SECOND),
                     22 * TEMP_UNIT)
    IN  [state |-> [state EXCEPT !.lastUpdate = now],
         baseline |-> newBaseline,
         data |-> [timestamp |-> now,
                   status |-> IF state.isRunning THEN "Running" ELSE "Stopped",
                   sensors |-> [rpm |-> Max(0, currentRpm * SENSOR_UNIT
                                                + Noise(draw, 500, SENSOR_UNIT)),
                                pressure |-> Max(0, pressureBase * SENSOR_UNIT
                                                     + Noise(draw, 50, SENSOR_UNIT)),
                                temperature |-> newBaseline + Noise(draw, 5, TEMP_UNIT)],
                   alerts |-> state.alerts]]

\* handleControl(payload)
handleControl(state, baseline, payload) ==
    CASE payload.command = "START" ->
             [state |-> [state EXCEPT !.isRunning = TRUE, !.sessionStartTime = now],
              baseline |-> baseline]
      [] payload.command = "STOP" ->
             [state |-> IF state.sessionStartTime # Null /\ state.sessionStartTime # 0
                        THEN [state EXCEPT !.isRunning = FALSE,
                                           !.totalRuntime = @ + (now - state.sessionStartTime),
                                           !.sessionStartTime = Null]
                        ELSE [state EXCEPT !.isRunning = FALSE],
              baseline |-> baseline]
      [] payload.command = "SET_RPM" ->
             [state |-> [state EXCEPT !.rpmTarget = payload.value[1]],
              baseline |-> baseline]
      [] payload.command = "SET_FEED" ->
             [state |-> [state EXCEPT !.feedRate = payload.value[1]],
              baseline |-> baseline]
      [] payload.command = "RESET" ->
             [state |-> [state EXCEPT !.alerts = <<>>], baseline |-> 22 * TEMP_UNIT]
      [] OTHER -> [state |-> state, baseline |-> baseline]

\* ws.send(JSON.stringify({ type: 'UPDATE', data })) on connection ws: the
\* ws library transmits on an OPEN socket only
wsSend(ws, data) ==
    IF serverConnections[ws].readyState = "open"
    THEN /\ serverConnections' = [serverConnections EXCEPT ![ws].updates = @ + 1]
         /\ serverSent' = [ws |-> ws, data |-> data]
    ELSE UNCHANGED <<serverConnections, serverSent>>

\* wss.on('connection', ...)
serverOnConnection ==
    /\ serverIntervals' = Append(serverIntervals,
                                 [ws |-> Len(serverConnections) + 1, live |-> TRUE])
    /\ serverConnections' = Append(serverConnections,
                                   [readyState |-> "open",
                                    interval |-> Len(serverIntervals) + 1,
                                    updates |-> 0])
    /\ UNCHANGED <<systemState, temperatureBaseline, serverSent>>

\* callback of the 500 ms interval k
serverIntervalCallback(k, draw) ==
    LET ws == serverIntervals[k].ws
        generated == generateSensorData(systemState, temperatureBaseline, draw)
    IN  IF serverConnections[ws].readyState = "open"
        THEN /\ systemState' = generated.state
             /\ temperatureBaseline' = generated.baseline
             /\ wsSend(ws, generated.data)
             /\ UNCHANGED serverIntervals
        ELSE UNCHANGED serverVars

ServerMessageKinds == {"control", "other", "unparsable"}

\* ws.on('message', ...) of connection ws
serverOnMessage(ws, kind, payload, draw) ==
    IF kind = "control"
    THEN LET applied == handleControl(systemState, temperatureBaseline, payload)
             generated == generateSensorData(applied.state, applied.baseline, draw)
         IN  /\ systemState' = generated.state
             /\ temperatureBaseline' = generated.baseline
             /\ wsSend(ws, generated.data)
             /\ UNCHANGED serverIntervals
    ELSE UNCHANGED serverVars

serverOnCloseKeepTimer(ws) ==
    /\ serverConnections' = [serverConnections EXCEPT ![ws].readyState = "closed"]
    /\ UNCHANGED <<serverIntervals, systemState, temperatureBaseline, serverSent>>

\* ws.on('close', ...) of connection ws
serverOnClose(ws) ==
    /\ serverConnections' = [serverConnections EXCEPT ![ws].readyState = "closed"]
    /\ serverIntervals' =
           [serverIntervals EXCEPT ![serverConnections[ws].interval].live = FALSE]
    /\ UNCHANGED <<systemState, temperatureBaseline, serverSent>>

\* ------------------------------------------------ state after construction

\* what the face classifier answered for a frame
Result(kind, left, right) == [kind |-> kind, left |-> left, right |-> right]

NoFrame ==
    [result |-> Result("none", <<>>, <<>>), outcome |-> "none",
     leftEAR |-> 0, rightEAR |-> 0, avgEAR |-> 0, smoothedEAR |-> 0,
     threshold |-> 0, finalEyesOpen |-> FALSE, passed |-> <<>>]

EyeInit ==
    /\ earHistory = <<>>
    /\ baselineEAR = Null
    /\ calibrationFrames = 0
    /\ lastFrame = NoFrame

Init ==
    /\ now = ClockStep
    /\ StoreInit
    /\ loops = EmptyBag
    /\ EyeInit
    /\ DrillInit({QuietDrillDraw})
    /\ HealthInit({QuietHealthDraw})
    /\ ServerInit
    /\ lastCall = Plain("init")
    /\ safeRunStart = Null

Tick ==
    /\ now + ClockStep <= MaxTime
    /\ now' = now + ClockStep
    /\ lastCall' = Plain("tick")
    /\ UNCHANGED <<storeVars, loops, safeRunStart, eyeVars, dataVars>>

Observe ==
    \E eo \in BOOLEAN, ev \in BOOLEAN, fd \in BOOLEAN :
        /\ updateEyeState(eo, ev, fd)
        /\ lastCall' = Call("updateEyeState", eo, ev, fd)
        /\ safeRunStart' = IF ev /\ eo
                           THEN (IF safeRunStart = Null THEN now ELSE safeRunStart)
                           ELSE Null
        /\ UNCHANGED <<now, loops, eyeVars, dataVars>>

StopBeep ==
    /\ stopBeep
    /\ lastCall' = Plain("stopBeep")
    /\ UNCHANGED <<now, loops, safeRunStart, eyeVars, dataVars>>

ToggleCameraOn ==
    /\ toggleCameraOn
    /\ lastCall' = Plain("toggleCameraOn")
    /\ UNCHANGED <<now, loops, safeRunStart, eyeVars, dataVars>>

CameraOnContinuation ==
    \E loaded \in BOOLEAN :
        /\ cameraOnContinuation(loaded)
        /\ lastCall' = Plain("cameraOnContinuation")
        /\ UNCHANGED <<now, loops, safeRunStart, eyeVars, dataVars>>

ToggleCameraOff ==
    /\ toggleCameraOff
    /\ lastCall' = Plain("toggleCameraOff")
    /\ UNCHANGED <<now, loops, safeRunStart, eyeVars, dataVars>>

LoadModels ==
    /\ loadModels
    /\ lastCall' = Plain("loadModels")
    /\ UNCHANGED <<now, loops, safeRunStart, eyeVars, dataVars>>

Next ==
    \/ Tick
    \/ Observe
    \/ StopBeep
    \/ ToggleCameraOn
    \/ CameraOnContinuation
    \/ ToggleCameraOff
    \/ LoadModels

Spec == Init /\ [][Next]_vars

\* ------------------------------------------- the page's detection loop

Loop(pc, cleaned, ts) == [pc |-> pc, cleaned |-> cleaned, ts |-> ts]
One(l) == SetToBag({l})
Replace(l, m) == (loops (-) One(l)) (+) One(m)

\* the detection effect runs only when  cameraActive && modelsLoaded
EffectOn(camera, loaded) == camera /\ loaded

\* cleanup of the detection effect: cancelAnimationFrame(rafId) removes the
\* frame request of the current loop; a detection that is awaiting the
\* classifier has no frame request to cancel and stays in flight
effectCleanup(b) ==
    LET live == {l \in BagToSet(b) : ~l.cleaned}
        gone == {l \in live : l.pc = "raf"}
        left == {l \in live : l.pc = "await"}
    IN  (b (-) SetToBag(live))
            (+) SetToBag({Loop(l.pc, TRUE, l.ts) : l \in left})

\* body of the detection effect: rafId = requestAnimationFrame(detectionLoop)
\* with lastDetectionTime = 0
effectMount(b) == b (+) One(Loop("raf", FALSE, 0))

\* React re-runs the effect when its dependencies changed; the cleanup also
\* resets the smoothing buffer and the calibration
EffectSync ==
    LET before == EffectOn(cameraActive, modelsLoaded)
        after == EffectOn(cameraActive', modelsLoaded')
    IN  /\ loops' = IF before = after
                     THEN loops
                     ELSE IF after THEN effectMount(loops) ELSE effectCleanup(loops)
        /\ IF before /\ ~after
           THEN /\ earHistory' = <<>>
                /\ baselineEAR' = Null
                /\ calibrationFrames' = 0
           ELSE UNCHANGED <<earHistory, baselineEAR, calibrationFrames>>
        /\ UNCHANGED lastFrame

detectCatchAsUnsafe == updateEyeState(FALSE, FALSE, FALSE)
\* catch block of detectEyes: log only
detectCatch == UNCHANGED storeVars

FrameOutcomes ==
    {"frameError", "frameNoFace", "frameBadLandmarks", "frameInvalidEAR", "frameEyes"}

\* the arguments detectEyes() hands to updateEyeState for a frame that does
\* not reach the smoother; <<>> where it makes no call
FrameObservation(outcome) ==
    CASE outcome = "frameNoFace" -> <<FALSE, FALSE, FALSE>>
      [] outcome = "frameBadLandmarks" -> <<FALSE, FALSE, TRUE>>
      [] outcome = "frameInvalidEAR" -> <<FALSE, FALSE, TRUE>>
      [] OTHER -> <<>>

\* detectEyes() after the classifier answered.  The branch for two valid
\* eyes evaluates the undeclared identifier definitelyClosed before it
\* reaches updateEyeState, so it ends in the catch block like a classifier
\* error does.
detectEyes(outcome) ==
    LET o == FrameObservation(outcome)
    IN  IF o = <<>> THEN detectCatch ELSE updateEyeState(o[1], o[2], o[3])

\* ------------------------------------------------- eye aspect ratio (EAR)

calculateEARNoRangeCheck(eye) ==
    IF Len(eye) # EYE_POINTS
    THEN 0
    ELSE LET vertical1 == Abs(eye[2].y - eye[6].y)
             vertical2 == Abs(eye[3].y - eye[5].y)
             horizontal == Abs(eye[1].x - eye[4].x)
         IN  IF horizontal = 0
             THEN 0
             ELSE ((vertical1 + vertical2) * EAR_UNIT) \div (2 * horizontal)
\* calculateEAR(eye); eye[i] here is eye[i-1] of the source
calculateEAR(eye) ==
    IF Len(eye) # EYE_POINTS
    THEN 0
    ELSE LET vertical1 == Abs(eye[2].y - eye[6].y)
             vertical2 == Abs(eye[3].y - eye[5].y)
             horizontal == Abs(eye[1].x - eye[4].x)
         IN  IF horizontal = 0
             THEN 0
             ELSE IF vertical1 + vertical2 > 2 * horizontal
                  THEN 0
                  ELSE ((vertical1 + vertical2) * EAR_UNIT) \div (2 * horizontal)

\* the branch of detectEyes() a classifier answer takes
FrameOutcome(result) ==
    IF result.kind = "error" THEN "frameError"
    ELSE IF result.kind = "none" THEN "frameNoFace"
    ELSE IF Len(result.left) # EYE_POINTS \/ Len(result.right) # EYE_POINTS
         THEN "frameBadLandmarks"
    ELSE IF calculateEAR(result.left) = 0 /\ calculateEAR(result.right) = 0
         THEN "frameInvalidEAR"
    ELSE "frameEyes"

\* avgEAR of a frame where not both eyes are invalid
avgEAROf(leftEAR, rightEAR) ==
    IF leftEAR = 0 THEN rightEAR
    ELSE IF rightEAR = 0 THEN leftEAR
    ELSE (leftEAR + rightEAR) \div 2

RESET_BELOW == 2000         \* avgEAR < 0.20
RESET_PREV_ABOVE == 2400    \* prevAvg > 0.24
CALIBRATE_ABOVE == 2500     \* smoothedEAR > 0.25
baseThreshold == 2600       \* 0.26
THRESHOLD_PERCENT == 80     \* baseline * 0.80
THRESHOLD_CAP == 3000       \* 0.30
NEAR_MARGIN == 300          \* + 0.03
HARD_CLAMP == 2600          \* smoothedEAR < 0.26

pushEARNoReset(buffer, avgEAR) ==
    LET pushed == Append(buffer, avgEAR)
    IN  IF Len(pushed) > EAR_HISTORY_SIZE THEN Tail(pushed) ELSE pushed

\* the smoothing buffer after the frame's sample went in: reset to the
\* sample when the eyes just closed, then push, then drop the oldest
pushEAR(buffer, avgEAR) ==
    LET prevHigh == Len(buffer) > 0 /\ Sum(buffer) > RESET_PREV_ABOVE * Len(buffer)
        base == IF avgEAR < RESET_BELOW /\ prevHigh THEN <<avgEAR>> ELSE buffer
        pushed == Append(base, avgEAR)
    IN  IF Len(pushed) > EAR_HISTORY_SIZE THEN Tail(pushed) ELSE pushed

smoothedEAROf(buffer) == Sum(buffer) \div Len(buffer)

\* baseline after the calibration step of the frame
calibrate(baseline, frames, smoothedEAR) ==
    IF frames < CALIBRATION_FRAMES /\ smoothedEAR > CALIBRATE_ABOVE
    THEN [frames |-> frames + 1,
          baseline |-> IF baseline = Null
                       THEN smoothedEAR
                       ELSE IF smoothedEAR > baseline
                            THEN (baseline * 9 + smoothedEAR) \div 10
                            ELSE baseline]
    ELSE [frames |-> frames, baseline |-> baseline]

\* EYE_CLOSED_THRESHOLD of the frame
adaptiveThreshold(baseline) ==
    IF baseline # Null /\ baseline # 0 /\ baseline > CALIBRATE_ABOVE
    THEN Min((baseline * THRESHOLD_PERCENT) \div 100, THRESHOLD_CAP)
    ELSE baseThreshold

finalEyesOpenNoMargin(avgEAR, smoothedEAR, threshold) ==
    ~(avgEAR < threshold \/ smoothedEAR < threshold \/ smoothedEAR < HARD_CLAMP)
finalEyesOpen(avgEAR, smoothedEAR, threshold) ==
    LET rawEyesClosed == avgEAR < threshold
        smoothedEyesClosed == smoothedEAR < threshold
        nearThresholdClosed == smoothedEAR < threshold + NEAR_MARGIN
        hardClampClosed == smoothedEAR < HARD_CLAMP
    IN  ~(rawEyesClosed \/ smoothedEyesClosed \/ nearThresholdClosed \/ hardClampClosed)

\* detectEyes() from the classifier's answer on: the store call of the
\* frame's branch, and for two valid eyes the smoother, the calibration and
\* the classification that run before line 267 throws
detectEyesOn(result) ==
    LET outcome == FrameOutcome(result)
        leftEAR == calculateEAR(result.left)
        rightEAR == calculateEAR(result.right)
        avgEAR == avgEAROf(leftEAR, rightEAR)
        buffer == pushEAR(earHistory, avgEAR)
        smoothedEAR == smoothedEAROf(buffer)
        cal == calibrate(baselineEAR, calibrationFrames, smoothedEAR)
        threshold == adaptiveThreshold(cal.baseline)
    IN  /\ detectEyes(outcome)
        /\ IF outcome = "frameEyes"
           THEN /\ earHistory' = buffer
                /\ baselineEAR' = cal.baseline
                /\ calibrationFrames' = cal.frames
                /\ lastFrame' = [result |-> result, outcome |-> outcome,
                                 leftEAR |-> leftEAR, rightEAR |-> rightEAR,
                                 avgEAR |-> avgEAR, smoothedEAR |-> smoothedEAR,
                                 threshold |-> threshold,
                                 finalEyesOpen |-> finalEyesOpen(avgEAR, smoothedEAR, threshold),
                                 passed |-> FrameObservation(outcome)]
           ELSE /\ UNCHANGED <<earHistory, baselineEAR, calibrationFrames>>
                /\ lastFrame' = [NoFrame EXCEPT !.result = result,
                                                !.outcome = outcome,
                                                !.leftEAR = leftEAR,
                                                !.rightEAR = rightEAR,
                                                !.passed = FrameObservation(outcome)]

\* ------------------------------------------------ classifier answers

Point(x, y) == [x |-> x, y |-> y]

EYE_WIDTH == 100

\* six landmarks of an eye of the given width and opening: corners eye[1]
\* and eye[4], upper lid eye[2], eye[3], lower lid eye[6], eye[5]
Eye(width, opening) ==
    <<Point(0, 0), Point(30, opening), Point(60, opening),
      Point(width, 0), Point(60, 0), Point(30, 0)>>

ClosedEye == Eye(EYE_WIDTH, 10)
NarrowEye == Eye(EYE_WIDTH, 27)
OpenEye == Eye(EYE_WIDTH, 30)
WideEye == Eye(EYE_WIDTH, 40)
FlatEye == Eye(0, 30)              \* horizontal distance 0
TallEye == Eye(EYE_WIDTH, 150)     \* ratio above 1
ShortEye == SubSeq(OpenEye, 1, 5)  \* five landmarks

FaceResults ==
    {Result("face", e, e) : e \in {ClosedEye, NarrowEye, OpenEye, WideEye, FlatEye, TallEye}}
        \cup {Result("face", OpenEye, FlatEye), Result("face", TallEye, WideEye),
              Result("face", ShortEye, OpenEye), Result("face", OpenEye, ShortEye)}

ClassifierResults ==
    {Result("error", <<>>, <<>>), Result("none", <<>>, <<>>)} \cup FaceResults

\* the answers the page's loop is run with
PageResults ==
    {Result("error", <<>>, <<>>), Result("none", <<>>, <<>>),
     Result("face", ShortEye, OpenEye), Result("face", FlatEye, FlatEye),
     Result("face", ClosedEye, ClosedEye)}

\* ------------------------------------ the classifier on a stream of frames

\* the page after CALIBRATION_FRAMES - 1 frames of the same open eyes: the
\* buffer is full of their ratio, which is the baseline, and the store was
\* not called
EyeCalibrating ==
    LET ear == calculateEAR(OpenEye)
        threshold == adaptiveThreshold(ear)
    IN  /\ earHistory = <<ear, ear, ear>>
        /\ baselineEAR = ear
        /\ calibrationFrames = CALIBRATION_FRAMES - 1
        /\ lastFrame = [result |-> Result("face", OpenEye, OpenEye),
                        outcome |-> "frameEyes",
                        leftEAR |-> ear, rightEAR |-> ear, avgEAR |-> ear,
                        smoothedEAR |-> ear, threshold |-> threshold,
                        finalEyesOpen |-> finalEyesOpen(ear, ear, threshold),
                        passed |-> <<>>]

InitEye ==
    /\ now = ClockStep
    /\ StoreInit
    /\ loops = EmptyBag
    /\ \/ EyeInit /\ lastCall = Plain("init")
       \/ EyeCalibrating /\ lastCall = Plain("frameEyes")
    /\ DrillInit({QuietDrillDraw})
    /\ HealthInit({QuietHealthDraw})
    /\ ServerInit
    /\ safeRunStart = Null

\* one frame of the detection loop, classifier answer included
EyeFrame ==
    \E result \in ClassifierResults :
        /\ calibrationFrames # MaxCalibrated
        /\ detectEyesOn(result)
        /\ lastCall' = Plain(FrameOutcome(result))
        /\ safeRunStart' = Null
        /\ UNCHANGED <<now, loops, dataVars>>

\* cleanup of the detection effect between two runs of the loop
EyeCleanup ==
    /\ earHistory' = <<>>
    /\ baselineEAR' = Null
    /\ calibrationFrames' = 0
    /\ lastCall' = Plain("effectCleanup")
    /\ UNCHANGED <<now, storeVars, loops, lastFrame, safeRunStart, dataVars>>

NextEye ==
    \/ EyeFrame
    \/ EyeCleanup

SpecEye == InitEye /\ [][NextEye]_vars

\* detectionLoop(timestamp), up to the await of the classifier
RafCallback ==
    \E l \in BagToSet(loops), ready \in BOOLEAN :
        /\ l.pc = "raf"
        /\ loops' = IF now - l.ts >= TARGET_INTERVAL
                    THEN IF ready
                         THEN Replace(l, Loop("await", l.cleaned, now))
                         ELSE Replace(l, Loop("raf", l.cleaned, now))
                    ELSE loops
        /\ lastCall' = Plain("detectionLoop")
        /\ UNCHANGED <<now, storeVars, safeRunStart, eyeVars, dataVars>>

\* the classifier answers: rest of detectEyes, then the loop's finally
\* block and its next requestAnimationFrame
DetectResolve ==
    \E l \in BagToSet(loops), result \in PageResults :
        /\ l.pc = "await"
        /\ detectEyesOn(result)
        /\ loops' = Replace(l, Loop("raf", l.cleaned, l.ts))
        /\ lastCall' = Plain(FrameOutcome(result))
        /\ safeRunStart' = Null
        /\ UNCHANGED <<now, dataVars>>

PageTick ==
    /\ now + PageStep <= MaxPageTime
    /\ now' = now + PageStep
    /\ lastCall' = Plain("tick")
    /\ UNCHANGED <<storeVars, loops, safeRunStart, eyeVars, dataVars>>

\* STOP ALERT button, rendered while alertBeeping
PageStopBeep ==
    /\ alertBeeping
    /\ stopBeep
    /\ EffectSync
    /\ lastCall' = Plain("stopBeep")
    /\ UNCHANGED <<now, safeRunStart, dataVars>>

\* camera button while the camera is off
PageToggleCameraOn ==
    /\ BagCardinality(loops) < MaxLoops
    /\ toggleCameraOn
    /\ EffectSync
    /\ lastCall' = Plain("toggleCameraOn")
    /\ UNCHANGED <<now, safeRunStart, dataVars>>

PageCameraOnContinuation ==
    \E loaded \in BOOLEAN :
        /\ cameraOnContinuation(loaded)
        /\ EffectSync
        /\ lastCall' = Plain("cameraOnContinuation")
        /\ UNCHANGED <<now, safeRunStart, dataVars>>

\* camera button while the camera is on
PageToggleCameraOff ==
    /\ toggleCameraOff
    /\ EffectSync
    /\ lastCall' = Plain("toggleCameraOff")
    /\ UNCHANGED <<now, safeRunStart, dataVars>>

\* loadModels() of the page's mount effect
PageLoadModels ==
    /\ loadModels
    /\ EffectSync
    /\ lastCall' = Plain("loadModels")
    /\ UNCHANGED <<now, safeRunStart, dataVars>>

NextPage ==
    \/ PageTick
    \/ RafCallback
    \/ DetectResolve
    \/ PageStopBeep
    \/ PageToggleCameraOn
    \/ PageCameraOnContinuation
    \/ PageToggleCameraOff
    \/ PageLoadModels

SpecPage == Init /\ [][NextPage]_vars

\* ------------------------------------------- the drill store under use

\* what the drill's specification leaves alone
notDrill == <<now, storeVars, loops, eyeVars, healthVars, serverVars, safeRunStart>>

InitDrill ==
    /\ now = ClockStep
    /\ StoreInit
    /\ loops = EmptyBag
    /\ EyeInit
    /\ DrillInit(Draws)
    /\ HealthInit({QuietHealthDraw})
    /\ ServerInit
    /\ lastCall = Plain("init")
    /\ safeRunStart = Null

RpmValues == {-100, 5000}
FeedValues == {20}

DrillTick ==
    \E i \in 1..Len(drillIntervals), draw \in Draws :
        /\ drillIntervals[i]
        /\ drillReadings < MaxDrillReadings
        /\ drillTick(draw)
        /\ lastCall' = Plain("drillTick")
        /\ UNCHANGED notDrill

DrillConnect ==
    /\ \/ drillIsConnected
       \/ (Len(drillSockets) < MaxDrillSockets /\ Len(drillIntervals) < MaxDrillIntervals)
    /\ drillConnect
    /\ lastCall' = Plain("drillConnect")
    /\ UNCHANGED notDrill

DrillDisconnect ==
    /\ drillDisconnect
    /\ lastCall' = Plain("drillDisconnect")
    /\ UNCHANGED notDrill

DrillSocketOpen ==
    \E i \in 1..Len(drillSockets) :
        /\ drillSockets[i] = "connecting"
        /\ drillOnOpen(i)
        /\ lastCall' = Plain("drillOnOpen")
        /\ UNCHANGED notDrill

DrillSocketError ==
    \E i \in 1..Len(drillSockets) :
        /\ drillSockets[i] \in {"connecting", "open"}
        /\ drillOnError(i)
        /\ lastCall' = Plain("drillOnError")
        /\ UNCHANGED notDrill

DrillSocketClose ==
    \E i \in 1..Len(drillSockets) :
        /\ drillSockets[i] \in {"connecting", "open", "closing"}
        /\ drillOnClose(i)
        /\ lastCall' = Plain("drillOnClose")
        /\ UNCHANGED notDrill

DrillSocketMessage ==
    \E i \in 1..Len(drillSockets), kind \in MessageKinds :
        /\ drillSockets[i] \in {"open", "closing"}
        /\ drillReadings < MaxDrillReadings
        /\ drillOnMessage(kind, ServerDrillReading(drillReadings + 1))
        /\ lastCall' = Plain("drillOnMessage")
        /\ UNCHANGED notDrill

SendCommand ==
    \E command \in DrillCommands, draw \in Draws :
    \E value \in {Undefined} \cup
                 {Defined(v) : v \in IF command = "SET_RPM" THEN RpmValues
                                     ELSE IF command = "SET_FEED" THEN FeedValues
                                     ELSE {}} :
        /\ drillReadings < MaxDrillReadings
        /\ sendCommand(command, value, draw)
        /\ lastCall' = CommandCall(command, value)
        /\ UNCHANGED notDrill

NextDrill ==
    \/ DrillTick
    \/ DrillConnect
    \/ DrillDisconnect
    \/ DrillSocketOpen
    \/ DrillSocketError
    \/ DrillSocketClose
    \/ DrillSocketMessage
    \/ SendCommand

SpecDrill == InitDrill /\ [][NextDrill]_vars

\* ---------------------------------- the health store and its transport

\* what the transport's specification leaves alone
notHealth == <<loops, eyeVars, drillVars, serverVars, safeRunStart>>

InitNet ==
    /\ now = ClockStep
    /\ StoreInit
    /\ loops = EmptyBag
    /\ EyeInit
    /\ DrillInit({QuietDrillDraw})
    /\ HealthInit(HealthDraws)
    /\ ServerInit
    /\ lastCall = Plain("init")
    /\ safeRunStart = Null

NetTick ==
    /\ now + NetStep <= MaxNetTime
    /\ now' = now + NetStep
    /\ lastCall' = Plain("tick")
    /\ UNCHANGED <<storeVars, healthVars, notHealth>>

\* the subject is out of the camera's view while the transport does its work
NetObserve ==
    /\ updateEyeState(FALSE, FALSE, FALSE)
    /\ lastCall' = Call("updateEyeState", FALSE, FALSE, FALSE)
    /\ UNCHANGED <<now, healthVars, notHealth>>

Connect ==
    /\ isConnected \/ (Len(sockets) < MaxSockets /\ Len(intervals) < MaxIntervals)
    /\ connect
    /\ lastCall' = Plain("connect")
    /\ UNCHANGED <<now, notHealth>>

Disconnect ==
    /\ disconnect
    /\ lastCall' = Plain("disconnect")
    /\ UNCHANGED <<now, notHealth>>

SocketOpen ==
    \E i \in 1..Len(sockets) :
        /\ sockets[i] = "connecting"
        /\ onopen(i)
        /\ lastCall' = Plain("onopen")
        /\ UNCHANGED <<now, notHealth>>

SocketError ==
    \E i \in 1..Len(sockets) :
        /\ sockets[i] \in {"connecting", "open"}
        /\ onerror(i)
        /\ lastCall' = Plain("onerror")
        /\ UNCHANGED <<now, notHealth>>

SocketClose ==
    \E i \in 1..Len(sockets) :
        /\ sockets[i] \in {"connecting", "open", "closing"}
        /\ onclose(i)
        /\ lastCall' = Plain("onclose")
        /\ UNCHANGED <<now, notHealth>>

SocketMessage ==
    \E i \in 1..Len(sockets), kind \in MessageKinds :
        /\ sockets[i] \in {"open", "closing"}
        /\ healthReadings < MaxHealthReadings
        /\ onmessage(kind, ServerHealthReading(healthReadings + 1))
        /\ lastCall' = Plain("onmessage")
        /\ UNCHANGED <<now, notHealth>>

Retry ==
    \E t \in retryTimers :
        /\ now >= t.due
        /\ isConnected \/ Len(sockets) < MaxSockets
        /\ retry(t)
        /\ lastCall' = Plain("retry")
        /\ UNCHANGED <<now, notHealth>>

HealthTick ==
    \E i \in 1..Len(intervals), draw \in HealthDraws :
        /\ intervals[i]
        /\ healthReadings < MaxHealthReadings
        /\ healthTick(draw)
        /\ lastCall' = Plain("healthTick")
        /\ UNCHANGED <<now, notHealth>>

NextNet ==
    \/ NetTick
    \/ NetObserve
    \/ Connect
    \/ Disconnect
    \/ SocketOpen
    \/ SocketError
    \/ SocketClose
    \/ SocketMessage
    \/ Retry
    \/ HealthTick
    \/ LoadModels

SpecNet == InitNet /\ [][NextNet]_vars

\* --------------------------- both stores connected, readings coming in

notData == <<now, storeVars, loops, eyeVars, serverVars, safeRunStart>>

\* both stores after connect() and the open event of their sockets
InitConnected(drillDraws, healthDraws) ==
    /\ now = ClockStep
    /\ StoreInit
    /\ loops = EmptyBag
    /\ EyeInit
    /\ DrillDataInit(drillDraws) /\ DrillUp
    /\ HealthDataInit(healthDraws) /\ HealthUp
    /\ ServerInit
    /\ lastCall = Plain("init")
    /\ safeRunStart = Null

NextReadings ==
    \/ DrillTick
    \/ DrillSocketMessage
    \/ SendCommand
    \/ HealthTick
    \/ SocketMessage

\* the readings of both stores, for every draw and every command
SpecReadings == InitConnected(Draws, HealthDraws) /\ [][NextReadings]_vars

HistoryDrillTick ==
    /\ drillIntervals[drillMockInterval]
    /\ drillReadings < MaxReadings
    /\ drillTick(QuietDrillDraw)
    /\ lastCall' = Plain("drillTick")
    /\ UNCHANGED notDrill

\* an UPDATE message with a reading like the local ones
HistoryDrillMessage ==
    /\ drillSockets[drillWs] = "open"
    /\ drillReadings < MaxReadings
    /\ drillOnMessage("update",
                      generateMockDrillData(mockControlState, QuietDrillDraw,
                                            drillReadings + 1))
    /\ lastCall' = Plain("drillOnMessage")
    /\ UNCHANGED notDrill

\* sendCommand('START') while the drill runs
HistorySendCommand ==
    /\ drillReadings < MaxReadings
    /\ sendCommand("START", Undefined, QuietDrillDraw)
    /\ lastCall' = CommandCall("START", Undefined)
    /\ UNCHANGED notDrill

HistoryHealthTick ==
    /\ intervals[mockInterval]
    /\ healthReadings < MaxReadings
    /\ healthTick(QuietHealthDraw)
    /\ lastCall' = Plain("healthTick")
    /\ UNCHANGED <<now, notHealth>>

\* a HEALTH_UPDATE message with a reading like the local ones
HistoryHealthMessage ==
    /\ sockets[socket] = "open"
    /\ healthReadings < MaxReadings
    /\ onmessage("update", generateMockHealthData(QuietHealthDraw, healthReadings + 1))
    /\ lastCall' = Plain("onmessage")
    /\ UNCHANGED <<now, notHealth>>

NextHistory ==
    \/ HistoryDrillTick
    \/ HistoryDrillMessage
    \/ HistorySendCommand
    \/ HistoryHealthTick
    \/ HistoryHealthMessage

\* the histories of both stores past their capacity
SpecHistory == InitConnected({QuietDrillDraw}, {QuietHealthDraw}) /\ [][NextHistory]_vars

\* ------------------------------------------------ the mock server at work

notServer == <<storeVars, loops, eyeVars, drillVars, healthVars, safeRunStart>>

ServerCall(name, ws, kind, payload) ==
    [name |-> name, ws |-> ws, kind |-> kind, payload |-> payload,
     alarmBefore |-> alertBeeping]

Payload(command, value) == [command |-> command, value |-> value]

\* the CONTROL payloads a client sends
ServerPayloads ==
    {Payload(c, Undefined) : c \in {"START", "STOP", "RESET", "PAUSE"}}
        \cup {Payload("SET_RPM", Defined(v)) : v \in {2000}}
        \cup {Payload("SET_FEED", Defined(v)) : v \in {8}}

\* the lowest draw: a stopped drill's noise is cut off at 0
ServerDraws == {0}

InitServer ==
    /\ now = ClockStep
    /\ StoreInit
    /\ loops = EmptyBag
    /\ EyeInit
    /\ DrillInit({QuietDrillDraw})
    /\ HealthInit({QuietHealthDraw})
    /\ ServerInit
    /\ lastCall = Plain("init")
    /\ safeRunStart = Null

ServerTick ==
    /\ now + ServerStep <= MaxServerTime
    /\ now' = now + ServerStep
    /\ lastCall' = Plain("tick")
    /\ UNCHANGED <<serverVars, notServer>>

ServerConnection ==
    /\ Len(serverConnections) < MaxConnections
    /\ serverOnConnection
    /\ lastCall' = ServerCall("serverOnConnection", Len(serverConnections) + 1, "", <<>>)
    /\ UNCHANGED <<now, notServer>>

\* the peer starts the closing handshake
ServerPeerClosing ==
    \E ws \in 1..Len(serverConnections) :
        /\ serverConnections[ws].readyState = "open"
        /\ serverConnections' = [serverConnections EXCEPT ![ws].readyState = "closing"]
        /\ lastCall' = ServerCall("closing", ws, "", <<>>)
        /\ UNCHANGED <<now, systemState, temperatureBaseline, serverIntervals,
                       serverSent, notServer>>

ServerClose ==
    \E ws \in 1..Len(serverConnections) :
        /\ serverConnections[ws].readyState \in {"open", "closing"}
        /\ serverOnClose(ws)
        /\ lastCall' = ServerCall("serverOnClose", ws, "", <<>>)
        /\ UNCHANGED <<now, notServer>>

ServerInterval ==
    \E k \in 1..Len(serverIntervals), draw \in ServerDraws :
        /\ serverIntervals[k].live
        /\ serverConnections[serverIntervals[k].ws].updates < MaxUpdates
        /\ serverIntervalCallback(k, draw)
        /\ lastCall' = ServerCall("serverIntervalCallback", serverIntervals[k].ws, "", <<>>)
        /\ UNCHANGED <<now, notServer>>

ServerMessage ==
    \E ws \in 1..Len(serverConnections), kind \in ServerMessageKinds,
       payload \in ServerPayloads, draw \in ServerDraws :
        /\ kind # "control" => payload = Payload("START", Undefined)
        /\ serverConnections[ws].readyState \in {"open", "closing"}
        /\ serverConnections[ws].updates < MaxUpdates
        /\ serverOnMessage(ws, kind, payload, draw)
        /\ lastCall' = ServerCall("serverOnMessage", ws, kind, payload)
        /\ UNCHANGED <<now, notServer>>

NextServer ==
    \/ ServerTick
    \/ ServerConnection
    \/ ServerPeerClosing
    \/ ServerClose
    \/ ServerInterval
    \/ ServerMessage

SpecServer == InitServer /\ [][NextServer]_vars

\* ------------------------------------------------------------- properties

Unsafe(c) == c.name = "updateEyeState" /\ ~(c.eyesVisible /\ c.eyesOpen)
Safe(c) == c.name = "updateEyeState" /\ c.eyesVisible /\ c.eyesOpen
ThresholdMs == ALARM_SECONDS * MS_PER_SECOND

C2_AlarmLatched ==
    [][alertBeeping =>
          /\ (Safe(lastCall') => alertBeeping')
          /\ (~alertBeeping' => lastCall'.name \in {"stopBeep", "toggleCameraOff"})]_vars

\* the alarm is still on after a SAFE run of at least 500 ms reset the timer
C2_Witness ==
    /\ Safe(lastCall)
    /\ alertBeeping
    /\ safeRunStart # Null
    /\ now - safeRunStart >= DEBOUNCE_MS
    /\ eyesClosedStartTime = Null

\* C3: an UNSAFE observation leaves the alarm on exactly when it was on
\* already or the danger time it measures is >= 5 s; in particular the
\* observation at exactly 5.0 s switches it on and an earlier one does not.
C3_TriggerAtThreshold ==
    [][Unsafe(lastCall') =>
          (alertBeeping' <=>
              (alertBeeping \/ now' - eyesClosedStartTime' >= ThresholdMs))]_vars

\* the alarm was switched on by the observation at exactly 5.0 s
C3_Witness ==
    /\ Unsafe(lastCall)
    /\ ~lastCall.alarmBefore
    /\ alertBeeping
    /\ now - eyesClosedStartTime = ThresholdMs

\* C4: a SAFE observation that arrives less than 500 ms after the first
\* observation of its run of consecutive SAFE observations leaves
\* eyesClosedStartTime and eyesClosedDuration as they were, so the timer
\* keeps running from its original start.
C4_Debounce ==
    [][(Safe(lastCall') /\ now' - safeRunStart' < DEBOUNCE_MS) =>
          /\ eyesClosedStartTime' = eyesClosedStartTime
          /\ eyesClosedDuration' = eyesClosedDuration]_vars

\* 3 s into the danger time, the second observation of a short SAFE run
C4_Witness ==
    /\ Safe(lastCall)
    /\ safeRunStart # Null
    /\ now > safeRunStart
    /\ now - safeRunStart < DEBOUNCE_MS
    /\ eyesClosedStartTime # Null
    /\ safeRunStart - eyesClosedStartTime >= 3 * MS_PER_SECOND

\* C5: stopBeep() called while the alarm is on leaves alertBeeping false,
\* eyesClosedStartTime null, eyesClosedDuration 0 and no beep interval.
C5_AcknowledgeClearsTimer ==
    (lastCall.name = "stopBeep" /\ lastCall.alarmBefore) =>
        /\ ~alertBeeping
        /\ eyesClosedStartTime = Null
        /\ eyesClosedDuration = 0
        /\ beepInterval = 0
        /\ timers = {}

\* C6: stopBeep() called while the alarm is off changes nothing, and a
\* second stopBeep() right after a first changes nothing.
C6_StopBeepNoOp ==
    [][(lastCall'.name = "stopBeep" /\ (~alertBeeping \/ lastCall.name = "stopBeep")) =>
          UNCHANGED <<eyesClosedStartTime, eyesClosedDuration, alertBeeping,
                      cameraActive, lastEyeState, beepInterval, timers>>]_vars

\* stopBeep() was called with the alarm off while the danger timer ran
C6_Witness ==
    /\ lastCall.name = "stopBeep"
    /\ ~lastCall.alarmBefore
    /\ eyesClosedStartTime # Null
    /\ eyesClosedDuration > 0

\* C7: toggleCamera() with the camera on leaves cameraActive false,
\* alertBeeping false, eyesClosedDuration 0, eyesClosedStartTime null and
\* no beep interval running.
C7_CameraOffResets ==
    lastCall.name = "toggleCameraOff" =>
        /\ ~cameraActive
        /\ ~alertBeeping
        /\ eyesClosedDuration = 0
        /\ eyesClosedStartTime = Null
        /\ beepInterval = 0
        /\ timers = {}

\* the camera was switched off while the alarm was on
C7_Witness ==
    /\ lastCall.name = "toggleCameraOff"
    /\ lastCall.alarmBefore
    /\ ~cameraActive

\* C8: while the camera is off the drowsiness state stays cleared, and a
\* detection loop whose cleanup ran has no frame requested.
C8_NoUpdateAfterCameraOff ==
    /\ ~cameraActive =>
          /\ eyesClosedStartTime = Null
          /\ eyesClosedDuration = 0
          /\ ~alertBeeping
    /\ \A l \in BagToSet(loops) : l.cleaned => l.pc # "raf"

\* C9: a frame in which the detection pipeline throws leaves
\* eyesClosedStartTime, eyesClosedDuration, alertBeeping and lastEyeState
\* as they were.
C9_ErrorKeepsState ==
    [][lastCall'.name \in {"frameError", "frameEyes"} =>
          UNCHANGED <<eyesClosedStartTime, eyesClosedDuration, alertBeeping,
                      lastEyeState>>]_vars

\* the classifier failed while the danger timer was running
C9_Witness ==
    /\ lastCall.name = "frameError"
    /\ eyesClosedStartTime # Null
    /\ now > eyesClosedStartTime
    /\ ~alertBeeping

\* C10: eyesClosedStartTime = null implies eyesClosedDuration = 0, and
\* right after an UNSAFE observation at time t the duration is
\* t - eyesClosedStartTime.
C10_DurationIsElapsed ==
    /\ eyesClosedStartTime = Null => eyesClosedDuration = 0
    /\ Unsafe(lastCall) =>
          /\ eyesClosedStartTime # Null
          /\ eyesClosedDuration = now - eyesClosedStartTime

\* an UNSAFE observation at least two clock steps after the timer started
C10_Witness ==
    /\ Unsafe(lastCall)
    /\ eyesClosedDuration >= 2 * ClockStep
    /\ eyesClosedDuration = now - eyesClosedStartTime

\* C11: the beep interval runs exactly while alertBeeping is true, there is
\* never more than one, and the handle stashed on the store is that one.
C11_OneBeepInterval ==
    /\ alertBeeping <=> timers # {}
    /\ Cardinality(timers) <= 1
    /\ timers = IF beepInterval = 0 THEN {} ELSE {beepInterval}

\* an UNSAFE observation past the threshold found the alarm already on and
\* started no second interval
C11_Witness ==
    /\ Unsafe(lastCall)
    /\ lastCall.alarmBefore
    /\ eyesClosedStartTime # Null
    /\ now - eyesClosedStartTime >= ThresholdMs
    /\ Cardinality(timers) = 1

\* C19: at most one detection is awaiting the classifier at any time.
C19_OneDetectionInFlight ==
    LET waiting == {l \in BagToSet(loops) : l.pc = "await"}
    IN  /\ Cardinality(waiting) <= 1
        /\ \A l \in waiting : CopiesIn(l, loops) = 1

\* C20: an UNSAFE observation that finds eyesClosedStartTime set leaves it
\* as it is, whichever of the two unsafe scenarios it is, and only an UNSAFE
\* observation turns eyesClosedStartTime from null into a timestamp.
C20_StartNotOverwritten ==
    [][/\ (Unsafe(lastCall') /\ eyesClosedStartTime # Null) =>
              eyesClosedStartTime' = eyesClosedStartTime
       /\ (eyesClosedStartTime = Null /\ eyesClosedStartTime' # Null) =>
              (Unsafe(lastCall') /\ eyesClosedStartTime' = now')]_vars

\* an "eyes visible but closed" observation arrives while the timer that
\* was started earlier is running
C20_Witness ==
    /\ Unsafe(lastCall)
    /\ lastCall.eyesVisible
    /\ eyesClosedStartTime # Null
    /\ now > eyesClosedStartTime

\* the frame took the branch for two valid eyes
EyesFrame == lastCall.name = "frameEyes" /\ lastFrame.outcome = "frameEyes"

Malformed(eye) ==
    \/ Len(eye) # EYE_POINTS
    \/ eye[1].x = eye[4].x
    \/ Abs(eye[2].y - eye[6].y) + Abs(eye[3].y - eye[5].y) > 2 * Abs(eye[1].x - eye[4].x)

SafeObservation(o) == o # <<>> /\ o[1] /\ o[2]
NotVisibleObservation(o) == o # <<>> /\ ~o[2]

HoldsNewest(h, n) ==
    /\ Len(h) = Min(n + 1, MAX_HISTORY)
    /\ \A i \in 1..Len(h) : h[i].serial = n - Len(h) + i

\* h2 is h, or h with one reading appended and the oldest dropped on overflow
AppendedOrSame(h, h2) ==
    \/ h2 = h
    \/ /\ Len(h2) = Min(Len(h) + 1, MAX_HISTORY)
       /\ \A i \in 1..(Len(h2) - 1) : h2[i] = h[Len(h) - Len(h2) + 1 + i]

\* C12: in the drill store and in the health store, after any sequence of
\* synthetic ticks, UPDATE or HEALTH_UPDATE messages and sendCommand calls,
\* history holds at most 60 readings in arrival order, namely the newest
\* min(n, 60) of the n readings appended, and every step either leaves it
\* alone or appends one reading, dropping the oldest on overflow.
C12_HistoryKeepsNewest ==
    [][/\ HoldsNewest(drillHistory', drillReadings')
       /\ HoldsNewest(history', healthReadings')
       /\ Len(drillHistory') <= 60 /\ Len(history') <= 60
       /\ AppendedOrSame(drillHistory, drillHistory')
       /\ AppendedOrSame(history, history')]_vars

\* both histories are full and have dropped their oldest readings
C12_Witness ==
    /\ drillReadings > MAX_HISTORY /\ healthReadings > MAX_HISTORY
    /\ Len(drillHistory) = 60 /\ Len(history) = 60
    /\ drillHistory[1].serial = drillReadings - 59
    /\ history[1].serial = healthReadings - 59
    /\ drillData.serial = drillReadings

\* C16: a reading of the drill generator has status Stopped exactly when the
\* control state is not running, otherwise Critical with a critical alert,
\* else Alert with any alert, else Running; a reading of the vitals generator
\* has status Critical with a critical alert, else Warning with any alert,
\* else Normal.
C16_StatusFollowsAlerts ==
    /\ lastCall.name \in {"init", "drillTick", "sendCommand"} =>
           LET critical == \E i \in 1..Len(drillData.alerts) : drillData.alerts[i] = "critical"
           IN  /\ drillData.status = "Stopped" <=> ~mockControlState.isRunning
               /\ mockControlState.isRunning =>
                      drillData.status = IF critical THEN "Critical"
                                         ELSE IF drillData.alerts # <<>> THEN "Alert"
                                         ELSE "Running"
    /\ lastCall.name \in {"init", "healthTick"} =>
           LET critical == \E i \in 1..Len(healthData.alerts) : healthData.alerts[i] = "critical"
           IN  healthData.status = IF critical THEN "Critical"
                                   ELSE IF healthData.alerts # <<>> THEN "Warning"
                                   ELSE "Normal"

\* a reading generated after STOP, and a vitals reading of the local tick
C16_Witness ==
    /\ lastCall.name = "sendCommand"
    /\ ~mockControlState.isRunning
    /\ drillData.status = "Stopped"
    /\ drillData.serial > 0
    /\ healthData.serial > 0
    /\ healthData.alerts = <<>>
    /\ healthData.status = "Normal"

\* the operations that leave a reading of the local generator in data
GeneratorOps == {"init", "drillTick", "sendCommand", "healthTick"}

\* C13 as stated: every reading the drill generator produces has rpm within
\* [0, 3000], and a target outside that range is clamped rather than stored.
C13_RpmClamped ==
    /\ mockControlState.targetRpm * SENSOR_UNIT >= SENSORS.rpm.min
    /\ mockControlState.targetRpm * SENSOR_UNIT <= SENSORS.rpm.max
    /\ lastCall.name \in GeneratorOps =>
           /\ drillData.sensors.rpm >= SENSORS.rpm.min
           /\ drillData.sensors.rpm <= SENSORS.rpm.max

FiveSeconds == 5 * MS_PER_SECOND
LiveIntervals == {i \in 1..Len(intervals) : intervals[i]}

\* C14: the close of a health socket sets isConnected to false and schedules
\* one reconnection attempt 5 s later; when that timer fires, not before 5 s
\* have passed, a new socket is created if isConnected is still false and
\* nothing happens otherwise; close and retry leave the synthetic vitals
\* timer as it was, with at most one such timer alive.
C14_ReconnectAfterDelay ==
    [][/\ lastCall'.name = "onclose" =>
              /\ ~isConnected'
              /\ \E t \in retryTimers' :
                     /\ retryTimers' = retryTimers \cup {t}
                     /\ t \notin retryTimers
                     /\ t.closedAt = now
                     /\ t.due = now + FiveSeconds
       /\ lastCall'.name = "retry" =>
              /\ \E t \in retryTimers :
                     /\ retryTimers' = retryTimers \ {t}
                     /\ now >= t.closedAt + FiveSeconds
              /\ IF isConnected
                 THEN sockets' = sockets /\ socket' = socket
                 ELSE /\ sockets' = Append(sockets, "connecting")
                      /\ socket' = Len(sockets')
       /\ lastCall'.name \in {"onclose", "retry"} =>
              /\ intervals' = intervals
              /\ mockInterval' = mockInterval
              /\ LiveIntervals' = IF mockInterval' = 0 THEN {} ELSE {mockInterval'}
      ]_vars

\* the second socket, made by a reconnection attempt, while the vitals tick
\* is still running
C14_Witness ==
    /\ lastCall.name = "retry"
    /\ ~isConnected
    /\ Len(sockets) = 2 /\ sockets[1] = "closed" /\ sockets[2] = "connecting"
    /\ socket = 2
    /\ now >= ClockStep + FiveSeconds
    /\ LiveIntervals = {mockInterval}

TransportOps ==
    {"connect", "disconnect", "onopen", "onclose", "onerror", "onmessage",
     "retry", "healthTick"}

\* C15: connect, disconnect, the socket's open, close, error and message
\* events, the reconnection timer and the synthetic vitals tick leave
\* eyesClosedStartTime, eyesClosedDuration, alertBeeping and the beep timer
\* unchanged.
C15_TransportKeepsAlarm ==
    [][lastCall'.name \in TransportOps =>
           UNCHANGED <<eyesClosedStartTime, eyesClosedDuration, alertBeeping,
                       beepInterval, timers>>]_vars

\* disconnect() while the alarm sounds
C15_Witness ==
    /\ lastCall.name = "disconnect"
    /\ alertBeeping
    /\ timers # {}
    /\ eyesClosedStartTime # Null
    /\ eyesClosedDuration >= ALARM_SECONDS * MS_PER_SECOND

\* C21: the first SAFE observation of a run records the time as the run's
\* start and leaves eyesClosedStartTime, eyesClosedDuration, alertBeeping and
\* the beep timer alone; a later SAFE observation of the run that arrives
\* 500 ms or more after that start clears eyesClosedStartTime and
\* eyesClosedDuration and leaves alertBeeping and the beep timer alone.
C21_SafeRunResets ==
    [][/\ (Safe(lastCall') /\ safeRunStart = Null) =>
              /\ lastEyeState' = "open"
              /\ lastEyeStateTime' = now
              /\ UNCHANGED <<eyesClosedStartTime, eyesClosedDuration, alertBeeping,
                             beepInterval, timers>>
       /\ (Safe(lastCall') /\ safeRunStart # Null /\ now - safeRunStart >= 500) =>
              /\ eyesClosedStartTime' = Null
              /\ eyesClosedDuration' = 0
              /\ lastEyeStateTime' = safeRunStart
              /\ UNCHANGED <<alertBeeping, beepInterval, timers>>]_vars

\* the reset of a SAFE run while the alarm sounds: the timer is cleared and
\* the alarm stays on
C21_Witness ==
    /\ Safe(lastCall)
    /\ lastCall.alarmBefore
    /\ alertBeeping
    /\ timers # {}
    /\ eyesClosedStartTime = Null
    /\ eyesClosedDuration = 0
    /\ safeRunStart # Null
    /\ now - safeRunStart >= 500

\* the control state a command must leave behind
ControlAfter(control, command, value) ==
    [isRunning |-> IF command \in {"START", "RESET"} THEN TRUE
                   ELSE IF command = "STOP" THEN FALSE
                   ELSE control.isRunning,
     targetRpm |-> IF command = "RESET" THEN 1500
                   ELSE IF command = "SET_RPM" /\ value # Undefined THEN value[1]
                   ELSE control.targetRpm,
     feedLevel |-> IF command = "RESET" THEN 5
                   ELSE IF command = "SET_FEED" /\ value # Undefined THEN value[1]
                   ELSE control.feedLevel]

\* the reading was generated from that control state: a stopped drill
\* reads Stopped with rpm 0 and no pressure, a running one is within 50 rpm
\* of the target and within 10 of thirty times the feed level
GeneratedFrom(reading, control) ==
    IF control.isRunning
    THEN /\ reading.status # "Stopped"
         /\ Abs(reading.sensors.rpm - control.targetRpm * SENSOR_UNIT) <= 50 * SENSOR_UNIT
         /\ Abs(reading.sensors.pressure - control.feedLevel * 30 * SENSOR_UNIT)
                <= 10 * SENSOR_UNIT
    ELSE /\ reading.status = "Stopped"
         /\ reading.sensors.rpm = 0
         /\ reading.sensors.pressure = 0

SocketIsOpen == drillWs # 0 /\ drillSockets[drillWs] = "open"

\* C22: sendCommand(c, v) first applies c to the local control state (START:
\* running; STOP: not running; RESET: running, 1500 rpm, feed 5; SET_RPM and
\* SET_FEED: store v when defined; any other command: unchanged), then
\* appends exactly one reading generated from the updated control state
\* (after STOP: status Stopped, rpm 0), and forwards a CONTROL message only
\* if a socket exists and is OPEN.
C22_SendCommand ==
    [][lastCall'.name = "sendCommand" =>
          LET control == ControlAfter(mockControlState, lastCall'.command, lastCall'.value)
          IN  /\ mockControlState' = control
              /\ drillReadings' = drillReadings + 1
              /\ drillHistory' # drillHistory
              /\ AppendedOrSame(drillHistory, drillHistory')
              /\ drillHistory'[Len(drillHistory')] = drillData'
              /\ drillData'.serial = drillReadings'
              /\ GeneratedFrom(drillData', control)
              /\ drillSent' = IF SocketIsOpen
                              THEN <<"CONTROL", lastCall'.command, lastCall'.value>>
                              ELSE drillSent
              /\ UNCHANGED <<drillWs, drillSockets>>]_vars

C22_Witness ==
    /\ lastCall.name = "sendCommand" /\ lastCall.command = "STOP"
    /\ drillData.status = "Stopped" /\ drillData.sensors.rpm = 0
    /\ mockControlState.targetRpm = 5000
    /\ SocketIsOpen /\ drillSent = <<"CONTROL", "STOP", Undefined>>

LiveDrillIntervals == {i \in 1..Len(drillIntervals) : drillIntervals[i]}

\* C23: for each of the drill and health stores, after any sequence of
\* connect() and disconnect() calls and socket events at most one
\* synthetic-data interval timer is running; after disconnect() none is
\* running, and a later connect() starts exactly one.
C23_OneSyntheticTimer ==
    [][/\ Cardinality(LiveDrillIntervals') <= 1
       /\ Cardinality(LiveIntervals') <= 1
       /\ lastCall'.name = "drillDisconnect" => LiveDrillIntervals' = {}
       /\ lastCall'.name = "disconnect" => LiveIntervals' = {}
       /\ (lastCall'.name = "drillConnect" /\ LiveDrillIntervals = {}) =>
              Cardinality(LiveDrillIntervals') = 1
       /\ (lastCall'.name = "connect" /\ LiveIntervals = {}) =>
              Cardinality(LiveIntervals') = 1]_vars

\* the eyes were open over the buffered samples and the new sample is closed
JustClosed(buffer, sample) ==
    /\ sample * 100 < 20 * EAR_UNIT
    /\ buffer # <<>>
    /\ Sum(buffer) * 100 > 24 * EAR_UNIT * Len(buffer)

C25_NoRetriggerAfterAcknowledge ==
    [][(lastCall.name = "stopBeep" /\ lastCall.alarmBefore /\ Unsafe(lastCall')) =>
          /\ ~alertBeeping'
          /\ eyesClosedStartTime' = now]_vars

\* C26: every frame in which a face is detected with 6 landmarks for each
\* eye and at least one non-zero eye ratio ends with exactly one call
\* updateEyeState(finalEyesOpen, true, true); no exception is raised on this
\* path, so SAFE and eyes-visible-but-closed observations reach the store.
C26_EyesFrameReachesStore ==
    [][EyesFrame' =>
          /\ lastFrame'.passed = <<lastFrame'.finalEyesOpen, TRUE, TRUE>>
          /\ lastFrame'.finalEyesOpen => lastEyeState' = "open"]_vars

LiveSockets == {i \in 1..Len(sockets) : sockets[i] \in {"connecting", "open"}}

\* C27: in the health store at most one WebSocket is connecting or open and
\* at most one reconnection timer is pending, whatever the sequence of
\* connect(), disconnect(), open and close events; the stored handle refers
\* to that socket.
C27_OneSocketOneRetry ==
    /\ Cardinality(LiveSockets) <= 1
    /\ Cardinality(retryTimers) <= 1
    /\ \A i \in LiveSockets : socket = i

\* disconnect() was the last of connect() and disconnect() to take effect
Disconnected == Len(sockets) > 0 /\ mockInterval = 0 /\ ~isConnected

\* C28: after disconnect() on the health store no new WebSocket is created
\* and isConnected stays false until connect() is called again; the close
\* caused by disconnect() does not start a reconnection.
C28_DisconnectIsFinal ==
    [][(Disconnected /\ lastCall'.name # "connect") =>
          /\ Len(sockets') = Len(sockets)
          /\ ~isConnected'
          /\ retryTimers' \subseteq retryTimers]_vars

\* C29: in the drill store data is always the last element of history; every
\* update (synthetic tick, UPDATE message, sendCommand) sets data and appends
\* that same reading in one store update, whether the reading came from the
\* local generator or from the server.
C29_DataIsNewestOfHistory ==
    [][/\ drillHistory # <<>> /\ drillHistory' # <<>>
       /\ drillData = drillHistory[Len(drillHistory)]
       /\ drillData' = drillHistory'[Len(drillHistory')]
       /\ (drillData' # drillData \/ drillHistory' # drillHistory) =>
              /\ lastCall'.name \in {"drillTick", "drillOnMessage", "sendCommand"}
              /\ Len(drillHistory') = Min(Len(drillHistory) + 1, MAX_HISTORY)
              /\ AppendedOrSame(drillHistory, drillHistory')
       /\ lastCall'.name \in {"drillTick", "sendCommand"} =>
              drillData'.serial = drillReadings + 1]_vars

\* a reading from the server became the current one after a local one
C29_Witness ==
    /\ lastCall.name = "drillOnMessage"
    /\ drillData = ServerDrillReading(drillReadings)
    /\ Len(drillHistory) = 3
    /\ drillHistory[3] = drillData
    /\ drillHistory[2].status = "Running"

\* the live sender timers of connection ws
TimersOf(ws) ==
    {k \in 1..Len(serverIntervals) : serverIntervals[k].ws = ws /\ serverIntervals[k].live}

\* the control state of the server after a CONTROL payload
ServerControlAfter(state, payload) ==
    /\ systemState'.isRunning = IF payload.command = "START" THEN TRUE
                                ELSE IF payload.command = "STOP" THEN FALSE
                                ELSE state.isRunning
    /\ systemState'.rpmTarget = IF payload.command = "SET_RPM" THEN payload.value[1]
                                ELSE state.rpmTarget
    /\ systemState'.feedRate = IF payload.command = "SET_FEED" THEN payload.value[1]
                               ELSE state.feedRate

\* the reading shows the control state: Stopped with no rpm beyond noise, or
\* Running within the noise of the target
ShowsControl(data, state) ==
    IF state.isRunning
    THEN /\ data.status = "Running"
         /\ Abs(data.sensors.rpm - state.rpmTarget * SENSOR_UNIT) <= 25 * SENSOR_UNIT
         /\ Abs(data.sensors.pressure - state.feedRate * 30 * SENSOR_UNIT)
                <= 5 * SENSOR_UNIT
    ELSE /\ data.status = "Stopped"
         /\ data.sensors.rpm <= 25 * SENSOR_UNIT
         /\ data.sensors.pressure <= 5 * SENSOR_UNIT

TypeOK ==
    /\ now \in Nat
    /\ cameraActive \in BOOLEAN
    /\ alertBeeping \in BOOLEAN
    /\ lastEyeState \in {"null", "open", "closed"}
    /\ eyesClosedStartTime \in {Null} \cup 0..now
    /\ beepInterval \in 0..(MaxTimers + 1)
====
